---- MODULE Spec2Model ----
(***************************************************************************)
(* A model of podcast_get.py: main() walks one configured podcast source,  *)
(* sorts the feed's items by publication date, numbers them from 1 and     *)
(* hands each to process_podcast(), which derives the destination file     *)
(* name, resolves the media URL through the optional regex filter and then *)
(* downloads and tags the episode, sleeps (dry run) or skips it (the file  *)
(* exists).  No exception is caught anywhere except the KeyError of a      *)
(* filter that is not configured and the AttributeError of a missing       *)
(* itunes:image element, so every other exception ends the process.        *)
(*                                                                         *)
(* Characters are one-character strings; a string of the program is a      *)
(* sequence of characters.  The file system under outDir and the feed      *)
(* survive from one run of the program to the next.                        *)
(***************************************************************************)
EXTENDS Integers, Sequences, FiniteSets, TLC

\* Largest number of <item> elements in the feed; publication instants are
\* drawn from 1..MaxItems, enough for every order pattern of that many items.
MaxItems == 2
\* Number of consecutive runs of the program over the same feed and directory.
MaxRuns == 2
\* Longest input string handed to clean_filename in SpecClean.
MaxLen == 4

VARIABLES
    config,     \* config.yaml: dryRun and which filter keys the source has
    feed,       \* root.findall('./channel/item'), in document order
    outDirExists, \* os.path.isdir(podcast_config['outDir'])
    files,      \* files of outDir: file name -> content
    pc,         \* "start", "loop", "done" (main returned), "crashed"
    run,        \* which run of the program this is
    error,      \* the exception that ended the run, "" if none
    episodes,   \* podcast_config['episodes']: feed indices, sorted
    i,          \* number of process_podcast calls made by the loop of main
    log,        \* one record per process_podcast call of this run
    channelArtRequests, \* requests.get of channel/image/url in this run
    prevComplete, \* the previous run was not a dry run and main returned
    file_str,   \* argument of a clean_filename call (SpecClean)
    cleaned,    \* its return value
    cf_pc       \* "idle", "call", "ret"

vars == <<config, feed, outDirExists, files, pc, run, error, episodes, i, log,
          channelArtRequests, prevComplete, file_str, cleaned, cf_pc>>

mainVars == <<config, feed, outDirExists, files, pc, run, error, episodes, i, log,
              channelArtRequests, prevComplete>>

cleanVars == <<file_str, cleaned, cf_pc>>

-----------------------------------------------------------------------------
(* clean_filename                                                          *)

Upper == {"A","B","C","D","E","F","G","H","I","J","K","L","M",
          "N","O","P","Q","R","S","T","U","V","W","X","Y","Z"}

Lower == {"a","b","c","d","e","f","g","h","i","j","k","l","m",
          "n","o","p","q","r","s","t","u","v","w","x","y","z"}

\* The accented capitals of line 141, written by code point since the module
\* is ASCII, and what str.lower() maps them to.
UpperAccent == {"U+00C0","U+00C8","U+00CC","U+00D2","U+00D9","U+00C1","U+00C9",
                "U+00CD","U+00D3","U+00DA","U+00DD","U+00C2","U+00CA","U+00CE",
                "U+00D4","U+00DB","U+00C4","U+00CB","U+00CF","U+00D6","U+00DC",
                "U+0178","U+00C3","U+00D1","U+00D5","U+00C5","U+00C6","U+0152",
                "U+00C7","U+00D0","U+00D8"}

LowerAccent == {"U+00E0","U+00E8","U+00EC","U+00F2","U+00F9","U+00E1","U+00E9",
                "U+00ED","U+00F3","U+00FA","U+00FD","U+00E2","U+00EA","U+00EE",
                "U+00F4","U+00FB","U+00E4","U+00EB","U+00EF","U+00F6","U+00FC",
                "U+00FF","U+00E3","U+00F1","U+00F5","U+00E5","U+00E6","U+0153",
                "U+00E7","U+00F0","U+00F8"}

Digits == {"0","1","2","3","4","5","6","7","8","9"}

good_character ==
    Upper \cup UpperAccent \cup Lower \cup LowerAccent
          \cup Digits \cup {"-", "_", ".", "U+00DF"}

\* What the regex class \s matches.
IsSpace(c) == c \in {" ", "\t", "\n", "\r", "\f"}

RECURSIVE SkipSpaces(_)
SkipSpaces(s) ==
    IF s /= <<>> /\ IsSpace(Head(s)) THEN SkipSpaces(Tail(s)) ELSE s

\* re.sub(r"\s", '_', s): every whitespace character becomes its own '_'.
RECURSIVE SubEachSpace(_)
SubEachSpace(s) ==
    IF s = <<>> THEN <<>>
    ELSE <<IF IsSpace(Head(s)) THEN "_" ELSE Head(s)>> \o SubEachSpace(Tail(s))

\* re.sub(r"\s+", '_', s): leftmost, greedy, non-overlapping matches.
RECURSIVE SubSpaces(_)
SubSpaces(s) ==
    IF s = <<>> THEN <<>>
    ELSE IF IsSpace(Head(s)) THEN <<"_">> \o SubSpaces(SkipSpaces(Tail(s)))
    ELSE <<Head(s)>> \o SubSpaces(Tail(s))

clean_filename(s) ==
    SelectSeq(SubSpaces(s), LAMBDA lett : lett \in good_character)

-----------------------------------------------------------------------------
(* Dates, numbers, extensions and URLs                                     *)

\* A publication instant is a half-day count; 0 stands for a pubDate that is
\* missing or that strptime rejects.
BadDate == 0

Times == 1 .. MaxItems

DateParses(item) == item.pubDate /= BadDate

Digit(n) == CASE n = 0 -> "0" [] n = 1 -> "1" [] n = 2 -> "2" [] n = 3 -> "3"
              [] n = 4 -> "4" [] n = 5 -> "5" [] n = 6 -> "6" [] n = 7 -> "7"
              [] n = 8 -> "8" [] n = 9 -> "9"

RECURSIVE str(_)
str(n) == IF n < 10 THEN <<Digit(n)>> ELSE str(n \div 10) \o <<Digit(n % 10)>>

\* strftime('%Y-%m-%d'): the instant cut to its day, in January 2023.
out_date(t) ==
    LET day == (t + 1) \div 2
    IN  <<"2","0","2","3","-","0","1","-">> \o
        (IF day < 10 THEN <<"0">> ELSE <<>>) \o str(day)

None == <<>>

\* mimetypes.guess_extension: None for a type with no mapping.
guess_extension(type) ==
    CASE type = "audio/mpeg" -> <<".","m","p","3">>
      [] type = "image/jpeg" -> <<".","j","p","g">>
      [] type = "image/png"  -> <<".","p","n","g">>
      [] OTHER               -> None

\* How an f-string renders a value: None is rendered as the word None.
fstring(v) == IF v = None THEN <<"N","o","n","e">> ELSE v

\* re.compile(filter).findall(url): the configured filter captures the
\* direct address out of a redirecting URL and matches nothing else.
findall(url) ==
    CASE url = "http://redirect/?to=cdn/media" -> <<"http://cdn/media">>
      [] url = "http://redirect/?to=cdn/art"   -> <<"http://cdn/art">>
      [] OTHER                                 -> <<>>

-----------------------------------------------------------------------------
(* The feed and the configuration                                          *)

Title == <<"E","p"," "," ","1","!">>

ItemKinds ==
    { [type |-> "audio/mpeg", url |-> "http://redirect/?to=cdn/media", image |-> "none"],
      [type |-> "audio/mpeg", url |-> "http://redirect/?to=cdn/media",
       image |-> "http://redirect/?to=cdn/art"],
      [type |-> "audio/x-unknown", url |-> "http://other/media", image |-> "http://other/art"] }

MkItem(t, k) ==
    [pubDate |-> t, title |-> Title, type |-> k.type, url |-> k.url, image |-> k.image]

Items ==
    { MkItem(t, k) : t \in Times, k \in ItemKinds }
        \cup { MkItem(BadDate, [type |-> "audio/mpeg",
                                url |-> "http://redirect/?to=cdn/media",
                                image |-> "none"]) }

Feeds == UNION { [1 .. n -> Items] : n \in 0 .. MaxItems }

Configs == [dryRun : BOOLEAN, episodeUrlFilter : BOOLEAN, artUrlFilter : BOOLEAN]

CoverPath == <<"c","o","v","e","r">> \o fstring(guess_extension("image/jpeg"))

-----------------------------------------------------------------------------
(* date_sort                                                               *)

\* Insert feed index x into the sorted list s after every element whose key
\* is not greater: what a stable sort does with equal keys.
RECURSIVE InsertStable(_, _, _)
InsertStable(f, x, s) ==
    IF s = <<>> THEN <<x>>
    ELSE IF f[Head(s)].pubDate <= f[x].pubDate
         THEN <<Head(s)>> \o InsertStable(f, x, Tail(s))
         ELSE <<x>> \o s

\* The same with equal keys swapped: an unstable sort.
RECURSIVE InsertUnstable(_, _, _)
InsertUnstable(f, x, s) ==
    IF s = <<>> THEN <<x>>
    ELSE IF f[Head(s)].pubDate < f[x].pubDate
         THEN <<Head(s)>> \o InsertUnstable(f, x, Tail(s))
         ELSE <<x>> \o s

RECURSIVE SortFrom(_, _, _)
SortFrom(f, k, s) ==
    IF k > Len(f) THEN s ELSE SortFrom(f, k + 1, InsertStable(f, k, s))

RECURSIVE SortFromUnstable(_, _, _)
SortFromUnstable(f, k, s) ==
    IF k > Len(f) THEN s ELSE SortFromUnstable(f, k + 1, InsertUnstable(f, k, s))

date_sort_unstable(f) == SortFromUnstable(f, 1, <<>>)

\* sorted(episode_list, key=extract_date): ascending and stable.
date_sort(f) == SortFrom(f, 1, <<>>)

extract_date_never_raises(f) == FALSE

\* sorted() computes the key of every item first: extract_date raises on the
\* first item whose pubDate is missing or does not parse.
extract_date_raises(f) == \E k \in 1 .. Len(f) : ~DateParses(f[k])

-----------------------------------------------------------------------------
(* process_podcast                                                         *)

path_never_exists(fs, p) == FALSE

\* os.path.exists(full_path)
path_exists(fs, p) == p \in DOMAIN fs

\* The outcomes of the network and of the disk during one call: the first
\* operation that raises, if the call gets to it.
Outcomes == {"ok", "art_raises", "media_raises", "write_raises", "tag_raises"}

full_path(episode_number, episode) ==
    clean_filename(out_date(episode.pubDate) \o <<"_","e","p">> \o str(episode_number)
                   \o <<"_">> \o episode.title \o fstring(guess_extension(episode.type)))

Entry(n, idx, path, url, result, err, artReq, mediaReq, art) ==
    [num |-> n, item |-> idx, path |-> path, url |-> url, result |-> result,
     error |-> err, artRequests |-> artReq, mediaRequests |-> mediaReq, art |-> art]

\* Lines 199-222 with the channel art used when the episode art request
\* raises.
resolve_art_fallback(episode, cfg, net) ==
    IF episode.image = "none" THEN [art |-> "channel", requests |-> 0, error |-> ""]
    ELSE IF cfg.artUrlFilter /\ findall(episode.image) = <<>>
         THEN [art |-> "none", requests |-> 0, error |-> "IndexError"]
    ELSE IF net = "art_raises"
         THEN [art |-> "channel", requests |-> 1, error |-> ""]
    ELSE [art |-> "episode", requests |-> 1, error |-> ""]

\* Lines 199-222: the episode's cover art.
resolve_art(episode, cfg, net) ==
    IF episode.image = "none" THEN [art |-> "channel", requests |-> 0, error |-> ""]
    ELSE IF cfg.artUrlFilter /\ findall(episode.image) = <<>>
         THEN [art |-> "none", requests |-> 0, error |-> "IndexError"]
    ELSE IF net = "art_raises"
         THEN [art |-> "none", requests |-> 1, error |-> "RequestException"]
    ELSE [art |-> "episode", requests |-> 1, error |-> ""]

\* The whole call: the log record it leaves and the files afterwards.
process_podcast(n, idx, fs, cfg, f, net) ==
    LET episode == f[idx]
        path    == full_path(n, episode)
        found   == findall(episode.url)
        url     == IF cfg.episodeUrlFilter
                   THEN (IF found = <<>> THEN "none" ELSE found[1])
                   ELSE episode.url
        art     == resolve_art(episode, cfg, net)
        body    == [data |-> "body", apic |-> "none", track |-> 0]
    IN
    IF cfg.episodeUrlFilter /\ found = <<>>
    THEN [entry |-> Entry(n, idx, path, url, "Failed", "IndexError", 0, 0, "none"),
          files |-> fs]
    ELSE IF ~path_exists(fs, path) /\ ~cfg.dryRun
    THEN IF art.error /= ""
         THEN [entry |-> Entry(n, idx, path, url, "Failed", art.error, art.requests, 0, "none"),
               files |-> fs]
         ELSE IF net = "media_raises"
         THEN [entry |-> Entry(n, idx, path, url, "Failed", "RequestException",
                               art.requests, 1, art.art),
               files |-> fs]
         ELSE IF net = "write_raises"
         THEN [entry |-> Entry(n, idx, path, url, "Failed", "OSError", art.requests, 1, art.art),
               files |-> (path :> [data |-> "partial", apic |-> "none", track |-> 0]) @@ fs]
         ELSE IF net = "tag_raises"
         THEN [entry |-> Entry(n, idx, path, url, "Failed", "MutagenError",
                               art.requests, 1, art.art),
               files |-> (path :> body) @@ fs]
         ELSE [entry |-> Entry(n, idx, path, url, "Done", "", art.requests, 1, art.art),
               files |-> (path :> [data |-> "body", apic |-> art.art, track |-> n]) @@ fs]
    ELSE IF cfg.dryRun
    THEN [entry |-> Entry(n, idx, path, url, "DryRun", "", 0, 0, "none"), files |-> fs]
    ELSE [entry |-> Entry(n, idx, path, url, "Skipped", "", 0, 0, "none"), files |-> fs]

-----------------------------------------------------------------------------
(* The program                                                             *)

Init ==
    /\ config \in Configs
    /\ feed \in Feeds
    /\ outDirExists = FALSE
    /\ files = <<>>
    /\ pc = "start"
    /\ run = 1
    /\ error = ""
    /\ episodes = <<>>
    /\ i = 0
    /\ log = <<>>
    /\ channelArtRequests = 0
    /\ prevComplete = FALSE
    /\ file_str = <<>>
    /\ cleaned = <<>>
    /\ cf_pc = "idle"

Crash(err) ==
    /\ pc' = "crashed"
    /\ error' = err

\* main, lines 281-315: everything before the loop over the episodes.
MainPrelude ==
    /\ pc = "start"
    /\ outDirExists' = TRUE
    /\ \E net \in {"ok", "feed_raises", "art_raises"} :
         IF net = "feed_raises"
         THEN /\ Crash("RequestException")
              /\ UNCHANGED <<files, episodes, channelArtRequests>>
         ELSE IF net = "art_raises"
         THEN /\ Crash("RequestException")
              /\ channelArtRequests' = 1
              /\ UNCHANGED <<files, episodes>>
         ELSE IF extract_date_raises(feed)
         THEN /\ Crash("ValueError")
              /\ channelArtRequests' = 1
              /\ UNCHANGED <<files, episodes>>
         ELSE /\ pc' = "loop"
              /\ channelArtRequests' = 1
              /\ episodes' = date_sort(feed)
              /\ files' = (CoverPath :> [data |-> "cover", apic |-> "none", track |-> 0])
                              @@ files
              /\ UNCHANGED error
    /\ UNCHANGED <<config, feed, run, i, log, prevComplete>>
    /\ UNCHANGED cleanVars

\* main, lines 318-319: one turn of the loop, a whole process_podcast call.
ProcessPodcast ==
    /\ pc = "loop"
    /\ i < Len(episodes)
    /\ \E net \in Outcomes :
         LET r == process_podcast(i + 1, episodes[i + 1], files, config, feed, net)
         IN  /\ log' = Append(log, r.entry)
             /\ files' = r.files
             /\ IF r.entry.result = "Failed"
                THEN Crash(r.entry.error)
                ELSE UNCHANGED <<pc, error>>
    /\ i' = i + 1
    /\ UNCHANGED <<config, feed, outDirExists, run, episodes, channelArtRequests,
                   prevComplete>>
    /\ UNCHANGED cleanVars

\* main returns once the loop has run out of episodes.
MainReturn ==
    /\ pc = "loop"
    /\ i = Len(episodes)
    /\ pc' = "done"
    /\ UNCHANGED <<config, feed, outDirExists, files, run, error, episodes, i, log,
                   channelArtRequests, prevComplete>>
    /\ UNCHANGED cleanVars

\* The program is started again on the same configuration, feed and directory.
Rerun ==
    /\ pc \in {"done", "crashed"}
    /\ run < MaxRuns
    /\ run' = run + 1
    /\ pc' = "start"
    /\ error' = ""
    /\ episodes' = <<>>
    /\ i' = 0
    /\ log' = <<>>
    /\ channelArtRequests' = 0
    /\ prevComplete' = (pc = "done" /\ ~config.dryRun)
    /\ UNCHANGED <<config, feed, outDirExists, files>>
    /\ UNCHANGED cleanVars

Next == MainPrelude \/ ProcessPodcast \/ MainReturn \/ Rerun

Spec == Init /\ [][Next]_vars

-----------------------------------------------------------------------------
(* clean_filename on its own                                               *)

\* Letters, an accented letter, kept and dropped punctuation, two kinds of
\* whitespace.
Alphabet == {"A", "U+00EB", "_", ".", " ", "\t", "!"}

Strings == UNION { [1 .. n -> Alphabet] : n \in 0 .. MaxLen }

InitClean ==
    /\ config = [dryRun |-> FALSE, episodeUrlFilter |-> FALSE, artUrlFilter |-> FALSE]
    /\ feed = <<>>
    /\ outDirExists = FALSE
    /\ files = <<>>
    /\ pc = "start"
    /\ run = 1
    /\ error = ""
    /\ episodes = <<>>
    /\ i = 0
    /\ log = <<>>
    /\ channelArtRequests = 0
    /\ prevComplete = FALSE
    /\ file_str \in Strings
    /\ cleaned = <<>>
    /\ cf_pc = "call"

CleanFilename ==
    /\ cf_pc = "call"
    /\ cleaned' = clean_filename(file_str)
    /\ cf_pc' = "ret"
    /\ UNCHANGED file_str
    /\ UNCHANGED mainVars

NextClean == CleanFilename

SpecClean == InitClean /\ [][NextClean]_vars

-----------------------------------------------------------------------------
(* Properties                                                              *)

Calls == 1 .. Len(log)

RunOver == pc \in {"done", "crashed"}

HasBadDate == \E k \in 1 .. Len(feed) : feed[k].pubDate = BadDate

EpisodeFiles == DOMAIN files \ {CoverPath}

\* C1: once a run is over, if some episode of the source failed then every
\* episode of the source was nevertheless attempted (each of the feed's items
\* has its process_podcast call, ended Skipped, Done or Failed).
C1_FailureIsolation ==
    (RunOver /\ \E k \in Calls : log[k].result = "Failed")
        => Len(log) = Len(feed)

\* C2: in a run that follows a complete run that was no dry run, over the same
\* feed and directory, every episode takes the already-downloaded branch with
\* no media request and no artwork request, every episode is reached, and the
\* episode files are those of the feed's episodes, none added and none lost.
C2_Idempotent ==
    prevComplete =>
        /\ \A k \in Calls : /\ log[k].result = "Skipped"
                            /\ log[k].mediaRequests = 0
                            /\ log[k].artRequests = 0
                            /\ log[k].path \in DOMAIN files
        /\ pc \in {"loop", "done"} => episodes = date_sort(feed)
        /\ pc = "done" => Len(log) = Len(feed)
        /\ EpisodeFiles = { full_path(k, feed[date_sort(feed)[k]]) : k \in 1 .. Len(feed) }
        /\ Cardinality(EpisodeFiles) = Len(feed)

C2_Witness ==
    /\ prevComplete
    /\ pc = "done"
    /\ Len(log) = 2
    /\ log[1].result = "Skipped"
    /\ log[2].result = "Skipped"

\* C3: in a dry run nothing under the output root is created or modified and
\* no artwork or media is requested, and every call takes the dry-run branch.
C3_DryRunUntouched ==
    config.dryRun =>
        /\ files = <<>>
        /\ ~outDirExists
        /\ channelArtRequests = 0
        /\ \A k \in Calls : /\ log[k].result = "DryRun"
                            /\ log[k].mediaRequests = 0
                            /\ log[k].artRequests = 0

\* C4: the numbers passed to process_podcast are 1, 2, 3, ... in that order,
\* each item is passed at most once, an item with an earlier timestamp gets
\* the smaller number, items with equal timestamps are numbered in document
\* order, and a run in which main returns has passed exactly 1..N.
C4_Numbering ==
    /\ \A k \in Calls : log[k].num = k /\ log[k].item \in 1 .. Len(feed)
    /\ \A a \in Calls : \A b \in Calls :
         LET ia == log[a].item
             ib == log[b].item
         IN  /\ (a /= b => ia /= ib)
             /\ (feed[ia].pubDate < feed[ib].pubDate => a < b)
             /\ (feed[ia].pubDate = feed[ib].pubDate /\ ia < ib => a < b)
    /\ \A k \in Calls : \A x \in 1 .. Len(feed) :
         \* nothing that sorts before a numbered item is left unnumbered
         (feed[x].pubDate < feed[log[k].item].pubDate
            \/ (feed[x].pubDate = feed[log[k].item].pubDate /\ x < log[k].item))
           => \E j \in 1 .. k : log[j].item = x
    /\ pc = "done" => Len(log) = Len(feed)

\* Two items with the same timestamp, numbered in document order, and main
\* returned.
C4_Witness ==
    /\ pc = "done"
    /\ Len(log) = 2
    /\ feed[1].pubDate = feed[2].pubDate
    /\ log[1].item = 1
    /\ log[2].item = 2

\* C5: a configured filter that does not match the raw URL leaves the URL as
\* it is and raises no error.
C5_FilterNoMatch ==
    \A k \in Calls :
        LET episode == feed[log[k].item]
        IN  /\ log[k].error /= "IndexError"
            /\ (config.episodeUrlFilter /\ findall(episode.url) = <<>>)
                 => log[k].url = episode.url

\* C6: a file at an episode's destination path holds the complete response
\* body, so no call takes the already-downloaded branch on a partial file.
C6_NoPartialFile ==
    /\ \A p \in EpisodeFiles : files[p].data = "body"
    /\ \A k \in Calls :
         log[k].result = "Skipped" => files[log[k].path].data = "body"

Keep(s) ==
    { p \in 1 .. Len(s) :
        \/ s[p] \in good_character
        \/ IsSpace(s[p]) /\ (p = 1 \/ ~IsSpace(s[p - 1])) }

C8_UnknownMediaType ==
    \A k \in Calls :
        guess_extension(feed[log[k].item].type) = None
            => /\ log[k].error = "UnknownMediaTypeError"
               /\ log[k].path \notin DOMAIN files

C10_BadDateAborts ==
    HasBadDate =>
        /\ log = <<>>
        /\ episodes = <<>>
        /\ pc \in {"start", "crashed"}
        /\ EpisodeFiles = {}

\* A feed with a good and a bad date, and the run ended by strptime's error.
C10_Witness ==
    /\ HasBadDate
    /\ Len(feed) = 2
    /\ \E k \in 1 .. 2 : feed[k].pubDate /= BadDate
    /\ pc = "crashed"
    /\ error = "ValueError"

====
